---- MODULE Spec2Model ----
(***************************************************************************)
(* A model of exporter.py: the scheduler loop, collect_metrics with its    *)
(* three cursor-paginated sweeps (trailing payments, trailing refunds,     *)
(* month-to-date payments), the order cache of get_order, and the          *)
(* Prometheus gauges the sweeps publish to.  The remote API is the         *)
(* environment: it holds, for each query of a cycle, a finite sequence of  *)
(* pages, and every remote call either answers or raises.  Spec is the     *)
(* loop from its top, BootSpec the process from its first line (the        *)
(* configuration, the currency lookup, the period), and WindowSpec the     *)
(* time windows of a cycle as functions of the clock.                      *)
(***************************************************************************)
EXTENDS Integers, Sequences, FiniteSets, TLC

\* ------------------------------------------------------------------------
\* Bounds of the model.
MaxPages == 2
MaxPageLen == 1

\* ------------------------------------------------------------------------
\* Python values.
None == 0

\* dict.get(key, default)
Get(d, key, default) == IF key \in DOMAIN d THEN d[key] ELSE default

\* The empty dict.
EmptyDict == [k \in {} |-> 0]

\* d[key] = value
DictSet(d, key, value) ==
  [k \in DOMAIN d \cup {key} |-> IF k = key THEN value ELSE d[k]]

RECURSIVE GCD(_, _)
GCD(a, b) == IF b = 0 THEN a ELSE GCD(b, a % b)

\* a / b on Python ints: a float, here the exact quotient as a reduced
\* fraction; den = 0 stands for the ZeroDivisionError the division raises.
TrueDiv(a, b) ==
  IF b = 0 THEN [num |-> 0, den |-> 0]
  ELSE [num |-> a \div GCD(a, b), den |-> b \div GCD(a, b)]

\* float(n) of an int, as Gauge.set stores it.
Float(n) == [num |-> n, den |-> 1]

\* int(s) of a decimal string, the string given as its sequence of digits.
RECURSIVE int(_)
int(s) == IF Len(s) = 0 THEN 0 ELSE 10 * int(SubSeq(s, 1, Len(s) - 1)) + s[Len(s)]

\* ------------------------------------------------------------------------
\* The remote data.
Queries == {"payments", "refunds", "mtd"}

OrderIds == {"o1", "o2"}

\* GET /orders/{id}: the body of the response.  A quantity is a decimal
\* string.
RemoteOrder(order_id) ==
  IF order_id = "o1"
  THEN [order |-> [line_items |-> <<
         [name |-> "Coffee", quantity |-> <<2>>, base_price_money |-> [amount |-> 300]],
         [name |-> "Tea", quantity |-> <<1, 0>>, base_price_money |-> [amount |-> 250]] >>]]
  ELSE [order |-> [line_items |-> <<
         [name |-> "Coffee", quantity |-> <<1>>, base_price_money |-> [amount |-> 300]] >>]]

PaymentRecords ==
  { [amount_money |-> [amount |-> 500]],
    [amount_money |-> [amount |-> 1500], order_id |-> "o1"],
    [amount_money |-> [amount |-> 725], order_id |-> "o2"] }

RefundRecords == { [amount_money |-> [amount |-> 200]] }

MtdRecords == { [amount_money |-> [amount |-> 1500], order_id |-> "o1"] }

Records(q) ==
  IF q = "payments" THEN PaymentRecords
  ELSE IF q = "refunds" THEN RefundRecords ELSE MtdRecords

\* The paginated result sets a query can have: 1..MaxPages pages of
\* 0..MaxPageLen records each.
PageSet(q) == UNION { [1..m -> Records(q)] : m \in 0..MaxPageLen }
Datasets(q) == UNION { [1..n -> PageSet(q)] : n \in 1..MaxPages }

\* The key of the record list in a response.
ListKey(q) == IF q = "refunds" THEN "refunds" ELSE "payments"

\* The response to a page request: the page the cursor names (the first page
\* for no cursor) and, unless it is the last page, the cursor of the next.
Response(pages, q, cursor) ==
  LET k == IF cursor = None THEN 1 ELSE cursor
  IN IF k < Len(pages)
     THEN (ListKey(q) :> pages[k]) @@ ("cursor" :> (k + 1))
     ELSE (ListKey(q) :> pages[k])

\* ------------------------------------------------------------------------
\* The configuration and the startup.

\* os.getenv of a name: an unset variable (None) and an empty one are both
\* taken by `if not ...` and are both the empty string here.
Tokens == {"", "token"}
LocationIds == {"", "L1"}

\* int(os.getenv("SCRAPE_WINDOW_H", "24")): any integer, 24 when unset.
WindowHours == {-1, 0, 1, 24}

\* The name CURRENCY before get_account_currency() has returned.
Unbound == "<unbound>"

\* The check with `and` where the code has `or`.
Missing_Both(token, location) == token = "" /\ location = ""

\* not SQUARE_TOKEN or not LOCATION_ID
Missing(token, location) == token = "" \/ location = ""

\* GET /locations/{id}: the bodies of the response.
LocationBodies ==
  { [location |-> [id |-> "L1", currency |-> "GBP"]],
    [location |-> [id |-> "L1"]],
    [errors |-> <<>>] }

\* get_account_currency, on the body of the response.
get_account_currency(body) == Get(Get(body, "location", EmptyDict), "currency", "")

\* int(x) of a float: the fraction truncated towards zero.
int_float(f) == IF f.num >= 0 THEN f.num \div f.den ELSE -((-f.num) \div f.den)

max(a, b) == IF a >= b THEN a ELSE b

\* The period without its floor of 60 seconds.
Interval_NoFloor(hours) == int_float(TrueDiv(hours * 3600, 12))

\* interval = max(60, int((SCRAPE_WINDOW_H * 3600) / 12))
Interval(hours) == max(60, int_float(TrueDiv(hours * 3600, 12)))

\* ------------------------------------------------------------------------
\* datetime, to the minute: the records [year, month, day, hour, minute].
\* Every instant of the model lies on a whole minute, its seconds and
\* microseconds 0.  The calendar is datetime's proleptic Gregorian one.
IsLeap(y) == y % 4 = 0 /\ (y % 100 # 0 \/ y % 400 = 0)

DaysInMonth(y, m) ==
  IF m = 2 THEN (IF IsLeap(y) THEN 29 ELSE 28)
  ELSE IF m \in {4, 6, 9, 11} THEN 30 ELSE 31

\* The days before January 1st of year y, from 0001-01-01.
DaysBeforeYear(y) ==
  LET p == y - 1 IN p * 365 + p \div 4 - p \div 100 + p \div 400

\* The days of year y before the first of month m.
RECURSIVE DaysBeforeMonth(_, _)
DaysBeforeMonth(y, m) ==
  IF m = 1 THEN 0 ELSE DaysBeforeMonth(y, m - 1) + DaysInMonth(y, m - 1)

\* date.toordinal(): 0001-01-01 is day 1.
ToOrdinal(y, m, d) == DaysBeforeYear(y) + DaysBeforeMonth(y, m) + d

\* The month of the day n (from 0) of a year, and the day of that month.
RECURSIVE MonthDay(_, _, _)
MonthDay(y, m, n) ==
  IF n < DaysInMonth(y, m) THEN [month |-> m, day |-> n + 1]
  ELSE MonthDay(y, m + 1, n - DaysInMonth(y, m))

\* date.fromordinal(n): the year by 400-, 100-, 4- and 1-year cycles.
FromOrdinal(ordinal) ==
  LET n0 == ordinal - 1
      n400 == n0 \div 146097
      r400 == n0 % 146097
      n100 == r400 \div 36524
      r100 == r400 % 36524
      n4 == r100 \div 1461
      r4 == r100 % 1461
      n1 == r4 \div 365
      r1 == r4 % 365
      year == n400 * 400 + 1 + n100 * 100 + n4 * 4 + n1
  IN IF n1 = 4 \/ n100 = 4
     THEN [year |-> year - 1, month |-> 12, day |-> 31]
     ELSE LET md == MonthDay(year, 1, r1)
          IN [year |-> year, month |-> md.month, day |-> md.day]

\* The minutes from 0001-01-01T00:00 to t.
ToMinutes(t) == ((ToOrdinal(t.year, t.month, t.day) - 1) * 24 + t.hour) * 60 + t.minute

FromMinutes(n) ==
  LET date == FromOrdinal(n \div 1440 + 1)
  IN [year |-> date.year, month |-> date.month, day |-> date.day,
      hour |-> (n % 1440) \div 60, minute |-> n % 60]

\* t - timedelta(hours=hours)
Minus(t, hours) == FromMinutes(ToMinutes(t) - hours * 60)

\* replace(day=1) alone: the time of day is kept.
MtdStart_DayOnly(t) == [t EXCEPT !.day = 1]

\* now.replace(day=1, hour=0, minute=0, second=0, microsecond=0)
MtdStart(t) == [t EXCEPT !.day = 1, !.hour = 0, !.minute = 0]

\* The instants datetime.utcnow() returns: about the ends of months and of
\* years, in a leap year and in a common one.
Times ==
  { t \in [year : {2023, 2024}, month : {1, 2, 3, 12}, day : {1, 2, 28, 29, 31},
           hour : {0, 1, 23}, minute : {0, 30}] :
      t.day <= DaysInMonth(t.year, t.month) }

\* The names of the windows before collect_metrics has bound them.
NoTime == [year |-> 1, month |-> 1, day |-> 1, hour |-> 0, minute |-> 0]

\* ------------------------------------------------------------------------
VARIABLES
  pc,                \* where the process is
  last,              \* how the cycle ended ("ok", or "error": logged), while the
                     \* process sleeps; "crash": the exception left the loop
  cache,             \* get_order's cache dict
  cursor, data, idx, \* collect_metrics: the pagination cursor, the page, the record
  total_count, total_value, refund_count, refund_value,
  product_counts, product_values, mtd_count, mtd_value,
  g_pay_count, g_pay_value, g_avg_value, g_refund_count, g_refund_value,
  product_count_24h, product_value_24h,
  g_pay_count_mtd, g_pay_value_mtd, g_avg_value_mtd,
  remote,            \* per query: the result set of this cycle (<<>>: not yet queried)
  sweep,             \* the query of the sweep most recently begun in this cycle
  requests,          \* the cursors that sweep has sent
  visited,           \* the records that sweep has processed
  finished,          \* whether that sweep has left its loop
  fetches,           \* per order id: successful remote fetches (stops counting at 2)
  lookup,            \* the most recent get_order call of this cycle
  unchanged,         \* the queries whose result set is the one last published
  published,         \* the windows whose gauges this cycle has set
  SQUARE_TOKEN, LOCATION_ID, SCRAPE_WINDOW_H,   \* the configuration, as read
  CURRENCY,          \* get_account_currency()'s result
  interval,          \* the scheduler's period, in seconds
  now, start_time, end_time, mtd_start, mtd_end,  \* collect_metrics: the windows
  located,           \* whether GET /locations/{id} has been requested
  failed,            \* the remote call of this cycle that raised ("": none has)
  slept              \* the seconds of the most recent time.sleep (0: none yet)

locals == <<cursor, data, idx, total_count, total_value, refund_count, refund_value,
            product_counts, product_values, mtd_count, mtd_value>>
gauges24 == <<g_pay_count, g_pay_value, g_avg_value, g_refund_count, g_refund_value,
              product_count_24h, product_value_24h>>
gaugesMtd == <<g_pay_count_mtd, g_pay_value_mtd, g_avg_value_mtd>>
ghost == <<remote, sweep, requests, visited, finished, fetches, lookup, unchanged,
           published, failed>>
config == <<SQUARE_TOKEN, LOCATION_ID, SCRAPE_WINDOW_H, CURRENCY, interval>>
window == <<now, start_time, end_time, mtd_start, mtd_end>>
vars == <<pc, last, cache, locals, gauges24, gaugesMtd, ghost, config, window,
          located, slept>>

NoData == [payments |-> <<>>]
NoLookup == [order_id |-> "", remote |-> FALSE, raised |-> FALSE]

\* The module's objects as the import of the module makes them, and nothing
\* of a cycle yet.
Constructed ==
  /\ last = "none"
  /\ cache = EmptyDict
  /\ cursor = None /\ data = NoData /\ idx = 0
  /\ total_count = 0 /\ total_value = 0 /\ refund_count = 0 /\ refund_value = 0
  /\ product_counts = EmptyDict /\ product_values = EmptyDict
  /\ mtd_count = 0 /\ mtd_value = 0
  /\ g_pay_count = Float(0) /\ g_pay_value = Float(0) /\ g_avg_value = Float(0)
  /\ g_refund_count = Float(0) /\ g_refund_value = Float(0)
  /\ product_count_24h = EmptyDict /\ product_value_24h = EmptyDict
  /\ g_pay_count_mtd = Float(0) /\ g_pay_value_mtd = Float(0) /\ g_avg_value_mtd = Float(0)
  /\ remote = [q \in Queries |-> <<>>]
  /\ sweep = "none"
  /\ requests = <<>>
  /\ visited = <<>>
  /\ finished = FALSE
  /\ fetches = [o \in OrderIds |-> 0]
  /\ lookup = NoLookup
  /\ unchanged = {}
  /\ published = {}
  /\ now = NoTime /\ start_time = NoTime /\ end_time = NoTime
  /\ mtd_start = NoTime /\ mtd_end = NoTime
  /\ slept = 0
  /\ failed = ""

\* The process at the top of the scheduler loop, started with a token, a
\* location id and the default window of 24 hours.
Init ==
  /\ pc = "main"
  /\ Constructed
  /\ SQUARE_TOKEN = "token" /\ LOCATION_ID = "L1" /\ SCRAPE_WINDOW_H = 24
  /\ CURRENCY = "GBP"
  /\ interval = Interval(24)
  /\ located = TRUE

\* The process at its first line, in any environment.
BootInit ==
  /\ pc = "config"
  /\ Constructed
  /\ SQUARE_TOKEN \in Tokens /\ LOCATION_ID \in LocationIds
  /\ SCRAPE_WINDOW_H \in WindowHours
  /\ CURRENCY = Unbound
  /\ interval = 0
  /\ located = FALSE

\* The process at the top of the scheduler loop, with any window size.
WindowInit ==
  /\ pc = "main"
  /\ Constructed
  /\ SQUARE_TOKEN = "token" /\ LOCATION_ID = "L1"
  /\ SCRAPE_WINDOW_H \in WindowHours
  /\ CURRENCY = "GBP"
  /\ interval = Interval(SCRAPE_WINDOW_H)
  /\ located = TRUE

\* ------------------------------------------------------------------------
\* get_order and the per-record arithmetic, as operators.

\* p.get("order_id") is None or a string; `if order_id:` takes neither None
\* nor the empty string, so both are the empty string here.
NoOrderId == ""

\* A payment that names no order taken for one of order o2.
OrderId_Default(p) == Get(p, "order_id", "o2")

\* order_id = p.get("order_id")
OrderId(p) == Get(p, "order_id", NoOrderId)

\* get_order without the store: the fetched order is returned, not cached.
get_order_NoStore(order_id, c, ok) ==
  IF order_id \in DOMAIN c
  THEN [order |-> c[order_id], cache |-> c, remote |-> FALSE, raised |-> FALSE]
  ELSE IF ~ok
  THEN [order |-> EmptyDict, cache |-> c, remote |-> TRUE, raised |-> TRUE]
  ELSE [order |-> Get(RemoteOrder(order_id), "order", EmptyDict), cache |-> c,
        remote |-> TRUE, raised |-> FALSE]

\* get_order storing an empty order for the id before it raises.
get_order_CacheFailure(order_id, c, ok) ==
  IF order_id \in DOMAIN c
  THEN [order |-> c[order_id], cache |-> c, remote |-> FALSE, raised |-> FALSE]
  ELSE IF ~ok
  THEN [order |-> EmptyDict, cache |-> DictSet(c, order_id, EmptyDict),
        remote |-> TRUE, raised |-> TRUE]
  ELSE LET order == Get(RemoteOrder(order_id), "order", EmptyDict)
       IN [order |-> order, cache |-> DictSet(c, order_id, order),
           remote |-> TRUE, raised |-> FALSE]

\* get_order(order_id) on cache dict c; ok says whether the remote fetch, if
\* one is made, answers.  Returns the order, the cache afterwards, whether a
\* remote fetch was made and whether the call raised.
get_order(order_id, c, ok) ==
  IF order_id \in DOMAIN c
  THEN [order |-> c[order_id], cache |-> c, remote |-> FALSE, raised |-> FALSE]
  ELSE IF ~ok
  THEN [order |-> EmptyDict, cache |-> c, remote |-> TRUE, raised |-> TRUE]
  ELSE LET order == Get(RemoteOrder(order_id), "order", EmptyDict)
       IN [order |-> order, cache |-> DictSet(c, order_id, order),
           remote |-> TRUE, raised |-> FALSE]

\* The value of a line item taken as its unit price, whatever the quantity.
AddLineItem_NoQuantity(acc, item) ==
  LET name == Get(item, "name", "<unknown>")
      qty == int(Get(item, "quantity", <<1>>))
      unit_price == Get(Get(item, "base_price_money", EmptyDict), "amount", 0)
  IN [counts |-> DictSet(acc.counts, name, Get(acc.counts, name, 0) + qty),
      values |-> DictSet(acc.values, name, Get(acc.values, name, 0) + unit_price)]

\* One line item added to the product dicts acc = [counts, values].
AddLineItem(acc, item) ==
  LET name == Get(item, "name", "<unknown>")
      qty == int(Get(item, "quantity", <<1>>))
      unit_price == Get(Get(item, "base_price_money", EmptyDict), "amount", 0)
  IN [counts |-> DictSet(acc.counts, name, Get(acc.counts, name, 0) + qty),
      values |-> DictSet(acc.values, name, Get(acc.values, name, 0) + unit_price * qty)]

\* for item in order.get("line_items", []): ...
RECURSIVE AddLineItems(_, _)
AddLineItems(acc, items) ==
  IF Len(items) = 0 THEN acc
  ELSE AddLineItems(AddLineItem(acc, Head(items)), Tail(items))

\* r.get("amount_money", {}).get("amount", 0)
RefundAmount(r) == Get(Get(r, "amount_money", EmptyDict), "amount", 0)

\* refund_value = amount, where the code has +=.
RECURSIVE AddRefunds_Assign(_, _)
AddRefunds_Assign(acc, rs) ==
  IF Len(rs) = 0 THEN acc
  ELSE AddRefunds_Assign([count |-> acc.count + 1, value |-> RefundAmount(Head(rs))],
                         Tail(rs))

\* The refunds of one page added to acc = [count, value].
RECURSIVE AddRefunds(_, _)
AddRefunds(acc, rs) ==
  IF Len(rs) = 0 THEN acc
  ELSE AddRefunds([count |-> acc.count + 1, value |-> acc.value + RefundAmount(Head(rs))],
                  Tail(rs))

\* The month-to-date payments of one page added to acc = [count, value].
RECURSIVE AddMtdPayments(_, _)
AddMtdPayments(acc, ps) ==
  IF Len(ps) = 0 THEN acc
  ELSE AddMtdPayments([count |-> acc.count + 1,
                       value |-> acc.value + Head(ps).amount_money.amount], Tail(ps))

\* The average without its guard: total / count.
Average_Unguarded(total, count) == TrueDiv(total, count)

\* total / count if count else 0, as the float the gauge stores.
Average(total, count) == IF count # 0 THEN TrueDiv(total, count) ELSE Float(0)

\* The cursor read under a key the response does not have.
NextCursor_WrongKey(d) == Get(d, "next_cursor", None)

\* cursor = data.get("cursor")
NextCursor(d) == Get(d, "cursor", None)

\* A loop that leaves after its first page whatever the cursor.
Falsy_Always(c) == TRUE

\* `if not cursor: break`
Falsy(c) == c = None

\* ------------------------------------------------------------------------
\* The scheduler's try/except.
TransportErrors == {"ConnectionError", "HTTPError"}

\* A handler that names one exception class: except requests.HTTPError.
Caught_HTTPErrorOnly(exc) == exc = "HTTPError"

\* except Exception: the classes it catches.
Caught(exc) == exc \in {"ConnectionError", "HTTPError", "ZeroDivisionError",
                        "KeyError", "ValueError"}

\* A handler inside collect_metrics around the trailing window: the exception
\* is logged there and the function goes on to the month-to-date window.
Raise_PerWindow(exc) ==
  /\ pc' = IF pc = "list_payments_mtd" THEN "sleep" ELSE "list_payments_mtd"
  /\ last' = IF pc = "list_payments_mtd" THEN "error" ELSE last

\* A handler that goes round the loop at once, past the sleep.
Raise_Continue(exc) ==
  /\ pc' = "main"
  /\ last' = "error"

\* collect_metrics raises exc: logged and on to the sleep, or the process dies.
Raise(exc) ==
  /\ pc' = IF Caught(exc) THEN "sleep" ELSE "exit"
  /\ last' = IF Caught(exc) THEN "error" ELSE "crash"

\* The frame of collect_metrics is gone: its locals hold nothing.
NoLocals ==
  /\ cursor' = None /\ data' = NoData /\ idx' = 0
  /\ total_count' = 0 /\ total_value' = 0 /\ refund_count' = 0 /\ refund_value' = 0
  /\ product_counts' = EmptyDict /\ product_values' = EmptyDict
  /\ mtd_count' = 0 /\ mtd_value' = 0

\* ------------------------------------------------------------------------
\* The steps of the process.  A step runs from one remote call to the next.

\* The result set a query sweeps: the one the remote already holds for it in
\* this cycle, or, on the first request, any one.
ResultSets(q) == IF remote[q] = <<>> THEN Datasets(q) ELSE {remote[q]}

\* Only result sets that were published are remembered from cycle to cycle
\* (to tell whether a later cycle sees the same data).
Published == [q \in Queries |-> IF q \in unchanged THEN remote[q] ELSE <<>>]

\* The request log of the sweep of q, a request with the current cursor added.
Requested(q) == IF sweep = q THEN Append(requests, cursor) ELSE <<cursor>>
Visited(q) == IF sweep = q THEN visited ELSE <<>>

\* The scheduler calls collect_metrics: the accumulators are initialised and
\* the first payments page is about to be requested.  Since the previous
\* cycle the windows have moved: the remote data they cover may have changed
\* or be the same.
CollectMetrics ==
  /\ pc = "main"
  /\ pc' = "list_payments"
  /\ total_count' = 0 /\ total_value' = 0
  /\ refund_count' = 0 /\ refund_value' = 0
  /\ product_counts' = EmptyDict /\ product_values' = EmptyDict
  /\ cursor' = None
  /\ \E changed \in {{}, Queries} :
       /\ remote' = [q \in Queries |-> IF q \in changed THEN <<>> ELSE remote[q]]
       /\ unchanged' = unchanged \ changed
  /\ UNCHANGED <<last, cache, data, idx, mtd_count, mtd_value, gauges24, gaugesMtd,
                 sweep, requests, visited, finished, fetches, lookup, published>>
  /\ UNCHANGED <<config, window, located, slept, failed>>

\* cursor = data.get("cursor"); if not cursor: break -- at the end of a
\* payments page d: on to the next page, or on to the refunds sweep.
EndOfPaymentsPage(d) ==
  LET c == NextCursor(d)
  IN IF Falsy(c)
     THEN pc' = "list_refunds" /\ cursor' = None /\ finished' = TRUE
     ELSE pc' = "list_payments" /\ cursor' = c /\ finished' = FALSE

\* list_payments(bt, et, cursor) answers.
ListPayments ==
  /\ pc = "list_payments"
  /\ \E pages \in ResultSets("payments") :
       LET d == Response(pages, "payments", cursor)
       IN /\ remote' = [remote EXCEPT !["payments"] = pages]
          /\ data' = d
          /\ IF Len(Get(d, "payments", <<>>)) = 0
             THEN EndOfPaymentsPage(d) /\ idx' = 0
             ELSE pc' = "payment" /\ idx' = 1 /\ finished' = FALSE /\ UNCHANGED cursor
  /\ sweep' = "payments"
  /\ requests' = Requested("payments")
  /\ visited' = Visited("payments")
  /\ UNCHANGED <<last, cache, total_count, total_value, refund_count, refund_value,
                 product_counts, product_values, mtd_count, mtd_value,
                 gauges24, gaugesMtd, fetches, lookup, unchanged, published>>
  /\ UNCHANGED <<config, window, located, slept, failed>>

\* list_payments raises (the request fails, or raise_for_status does).
ListPaymentsFails ==
  /\ pc = "list_payments"
  /\ \E exc \in TransportErrors : Raise(exc)
  /\ NoLocals
  /\ sweep' = "payments"
  /\ requests' = Requested("payments")
  /\ visited' = Visited("payments")
  /\ finished' = FALSE
  /\ remote' = Published
  /\ UNCHANGED <<cache, gauges24, gaugesMtd, fetches, lookup, unchanged, published>>
  /\ failed' = "list_payments"
  /\ UNCHANGED <<config, window, located, slept>>

\* The record the payments loop is at.
CurrentPayment == data["payments"][idx]

\* One payment of the page is processed, its order (if it names one) coming
\* from the cache or from a remote fetch that answers.
ProcessPayment ==
  /\ pc = "payment"
  /\ LET p == CurrentPayment
         order_id == OrderId(p)
         r == get_order(order_id, cache, TRUE)
         acc == [counts |-> product_counts, values |-> product_values]
         sums == IF order_id # NoOrderId
                 THEN AddLineItems(acc, Get(r.order, "line_items", <<>>))
                 ELSE acc
     IN /\ total_count' = total_count + 1
        /\ total_value' = total_value + p.amount_money.amount
        /\ product_counts' = sums.counts
        /\ product_values' = sums.values
        /\ IF order_id # NoOrderId
           THEN /\ cache' = r.cache
                /\ lookup' = [order_id |-> order_id, remote |-> r.remote, raised |-> FALSE]
                /\ fetches' = IF r.remote /\ fetches[order_id] < 2
                              THEN [fetches EXCEPT ![order_id] = @ + 1] ELSE fetches
           ELSE UNCHANGED <<cache, lookup, fetches>>
        /\ visited' = Append(visited, p)
  /\ IF idx < Len(data["payments"])
     THEN idx' = idx + 1 /\ UNCHANGED <<pc, cursor, finished>>
     ELSE EndOfPaymentsPage(data) /\ idx' = 0
  /\ UNCHANGED <<last, data, refund_count, refund_value, mtd_count, mtd_value,
                 gauges24, gaugesMtd, remote, sweep, requests, unchanged, published>>
  /\ UNCHANGED <<config, window, located, slept, failed>>

\* The payment names an order that is not cached, and the remote fetch of
\* get_order raises.
GetOrderFails ==
  /\ pc = "payment"
  /\ LET order_id == OrderId(CurrentPayment)
         r == get_order(order_id, cache, FALSE)
     IN /\ order_id # NoOrderId
        /\ r.raised
        /\ cache' = r.cache
        /\ lookup' = [order_id |-> order_id, remote |-> r.remote, raised |-> TRUE]
  /\ \E exc \in TransportErrors : Raise(exc)
  /\ NoLocals
  /\ remote' = Published
  /\ UNCHANGED <<gauges24, gaugesMtd, sweep, requests, visited, finished, fetches,
                 unchanged, published>>
  /\ failed' = "get_order"
  /\ UNCHANGED <<config, window, located, slept>>

\* .inc(cnt) where the code has .set(cnt).
SetLabels_Inc(gauge, d) ==
  [k \in DOMAIN gauge \cup DOMAIN d |->
     IF k \in DOMAIN d THEN Float(Get(gauge, k, Float(0)).num + d[k]) ELSE gauge[k]]

\* for prod, cnt in d.items(): gauge.labels(product_name=prod).set(cnt)
SetLabels(gauge, d) ==
  [k \in DOMAIN gauge \cup DOMAIN d |-> IF k \in DOMAIN d THEN Float(d[k]) ELSE gauge[k]]

\* list_refunds(bt, et, cursor) answers.  After the last page the trailing
\* gauges are set and the month-to-date sweep begins.
ListRefunds ==
  /\ pc = "list_refunds"
  /\ \E pages \in ResultSets("refunds") :
       LET d == Response(pages, "refunds", cursor)
           rs == Get(d, "refunds", <<>>)
           acc == AddRefunds([count |-> refund_count, value |-> refund_value], rs)
           c == NextCursor(d)
           avg == Average(total_value, total_count)
       IN /\ visited' = Visited("refunds") \o rs
          /\ IF ~Falsy(c)
             THEN /\ pc' = "list_refunds"
                  /\ cursor' = c
                  /\ data' = d
                  /\ refund_count' = acc.count
                  /\ refund_value' = acc.value
                  /\ finished' = FALSE
                  /\ remote' = [remote EXCEPT !["refunds"] = pages]
                  /\ UNCHANGED <<last, total_count, total_value, product_counts,
                                 product_values, mtd_count, mtd_value, gauges24, unchanged,
                                 published>>
             ELSE /\ finished' = TRUE
                  /\ g_pay_count' = Float(total_count)
                  /\ g_pay_value' = Float(total_value)
                  /\ IF avg.den = 0
                     THEN /\ Raise("ZeroDivisionError")
                          /\ NoLocals
                          /\ remote' = Published
                          /\ UNCHANGED <<g_avg_value, g_refund_count, g_refund_value,
                                         product_count_24h, product_value_24h, unchanged,
                                         published>>
                     ELSE /\ g_avg_value' = avg
                          /\ g_refund_count' = Float(acc.count)
                          /\ g_refund_value' = Float(acc.value)
                          /\ product_count_24h' = SetLabels(product_count_24h, product_counts)
                          /\ product_value_24h' = SetLabels(product_value_24h, product_values)
                          /\ remote' = [remote EXCEPT !["refunds"] = pages]
                          /\ unchanged' = unchanged \cup {"payments", "refunds"}
                          /\ published' = published \cup {"24h"}
                          /\ data' = d
                          /\ refund_count' = acc.count
                          /\ refund_value' = acc.value
                          /\ mtd_count' = 0
                          /\ mtd_value' = 0
                          /\ cursor' = None
                          /\ pc' = "list_payments_mtd"
                          /\ UNCHANGED <<last, total_count, total_value, product_counts,
                                         product_values>>
  /\ sweep' = "refunds"
  /\ requests' = Requested("refunds")
  /\ UNCHANGED <<cache, idx, gaugesMtd, fetches, lookup>>
  /\ UNCHANGED <<config, window, located, slept, failed>>

\* list_refunds raises.
ListRefundsFails ==
  /\ pc = "list_refunds"
  /\ \E exc \in TransportErrors : Raise(exc)
  /\ NoLocals
  /\ sweep' = "refunds"
  /\ requests' = Requested("refunds")
  /\ visited' = Visited("refunds")
  /\ finished' = FALSE
  /\ remote' = Published
  /\ UNCHANGED <<cache, gauges24, gaugesMtd, fetches, lookup, unchanged, published>>
  /\ failed' = "list_refunds"
  /\ UNCHANGED <<config, window, located, slept>>

\* The month-to-date count and total set on the trailing window's gauges.
SetMtdGauges_Trailing(count, value) ==
  /\ g_pay_count' = Float(count)
  /\ g_pay_value' = Float(value)
  /\ UNCHANGED <<g_avg_value, g_refund_count, g_refund_value, product_count_24h,
                 product_value_24h, g_pay_count_mtd, g_pay_value_mtd>>

\* g_pay_count_mtd.set(mtd_count); g_pay_value_mtd.set(mtd_value)
SetMtdGauges(count, value) ==
  /\ g_pay_count_mtd' = Float(count)
  /\ g_pay_value_mtd' = Float(value)
  /\ UNCHANGED gauges24

\* list_payments(mb, me, cursor) answers.  After the last page the
\* month-to-date gauges are set and collect_metrics returns.
ListPaymentsMtd ==
  /\ pc = "list_payments_mtd"
  /\ \E pages \in ResultSets("mtd") :
       LET d == Response(pages, "mtd", cursor)
           ps == Get(d, "payments", <<>>)
           acc == AddMtdPayments([count |-> mtd_count, value |-> mtd_value], ps)
           c == NextCursor(d)
           avg == Average(acc.value, acc.count)
       IN /\ visited' = Visited("mtd") \o ps
          /\ IF ~Falsy(c)
             THEN /\ pc' = "list_payments_mtd"
                  /\ cursor' = c
                  /\ data' = d
                  /\ mtd_count' = acc.count
                  /\ mtd_value' = acc.value
                  /\ finished' = FALSE
                  /\ remote' = [remote EXCEPT !["mtd"] = pages]
                  /\ UNCHANGED <<last, idx, total_count, total_value, refund_count,
                                 refund_value, product_counts, product_values,
                                 gauges24, gaugesMtd, unchanged, published>>
             ELSE /\ finished' = TRUE
                  /\ SetMtdGauges(acc.count, acc.value)
                  /\ NoLocals
                  /\ IF avg.den = 0
                     THEN /\ Raise("ZeroDivisionError")
                          /\ remote' = Published
                          /\ UNCHANGED <<g_avg_value_mtd, unchanged, published>>
                     ELSE /\ g_avg_value_mtd' = avg
                          /\ remote' = [remote EXCEPT !["mtd"] = pages]
                          /\ unchanged' = unchanged \cup {"mtd"}
                          /\ published' = published \cup {"mtd"}
                          /\ pc' = "sleep"
                          /\ last' = "ok"
  /\ sweep' = "mtd"
  /\ requests' = Requested("mtd")
  /\ UNCHANGED <<cache, fetches, lookup>>
  /\ UNCHANGED <<config, window, located, slept, failed>>

\* The month-to-date list_payments raises.
ListPaymentsMtdFails ==
  /\ pc = "list_payments_mtd"
  /\ \E exc \in TransportErrors : Raise(exc)
  /\ NoLocals
  /\ sweep' = "mtd"
  /\ requests' = Requested("mtd")
  /\ visited' = Visited("mtd")
  /\ finished' = FALSE
  /\ remote' = Published
  /\ UNCHANGED <<cache, gauges24, gaugesMtd, fetches, lookup, unchanged, published>>
  /\ failed' = "list_payments"
  /\ UNCHANGED <<config, window, located, slept>>

\* time.sleep(interval) returns and the loop comes round.
Sleep ==
  /\ pc = "sleep"
  /\ pc' = "main"
  /\ last' = "none"
  /\ sweep' = "none" /\ requests' = <<>> /\ visited' = <<>> /\ finished' = FALSE
  /\ lookup' = NoLookup
  /\ published' = {}
  /\ UNCHANGED <<cache, locals, gauges24, gaugesMtd, remote, fetches, unchanged>>
  /\ slept' = interval
  /\ failed' = ""
  /\ UNCHANGED <<config, window, located>>

Next ==
  \/ CollectMetrics
  \/ ListPayments
  \/ ListPaymentsFails
  \/ ProcessPayment
  \/ GetOrderFails
  \/ ListRefunds
  \/ ListRefundsFails
  \/ ListPaymentsMtd
  \/ ListPaymentsMtdFails
  \/ Sleep

Spec == Init /\ [][Next]_vars

\* The loop is one thread: whenever it can take a step (every remote call
\* answers or raises), it does.
LiveSpec == Spec /\ WF_vars(Next)

\* ------------------------------------------------------------------------
\* The startup: the module's top-level statements, then `__main__`.

\* Lines 17-25: the configuration is read and checked.
Configure ==
  /\ pc = "config"
  /\ IF Missing(SQUARE_TOKEN, LOCATION_ID)
     THEN pc' = "exit" /\ last' = "crash"
     ELSE pc' = "get_account_currency" /\ UNCHANGED last
  /\ UNCHANGED <<cache, locals, gauges24, gaugesMtd, ghost, config, window, located,
                 slept>>

\* CURRENCY = get_account_currency(): the request answers.
GetAccountCurrency ==
  /\ pc = "get_account_currency"
  /\ \E body \in LocationBodies : CURRENCY' = get_account_currency(body)
  /\ located' = TRUE
  /\ pc' = "start"
  /\ UNCHANGED <<last, cache, locals, gauges24, gaugesMtd, ghost, SQUARE_TOKEN,
                 LOCATION_ID, SCRAPE_WINDOW_H, interval, window, slept>>

\* The request fails, or raise_for_status raises: nothing at the top level of
\* the module catches it.
GetAccountCurrencyFails ==
  /\ pc = "get_account_currency"
  /\ located' = TRUE
  /\ pc' = "exit" /\ last' = "crash"
  /\ UNCHANGED <<cache, locals, gauges24, gaugesMtd, ghost, config, window, slept>>

\* Lines 178-183: the metrics server is started and the period computed.
Main ==
  /\ pc = "start"
  /\ interval' = Interval(SCRAPE_WINDOW_H)
  /\ pc' = "main"
  /\ UNCHANGED <<last, cache, locals, gauges24, gaugesMtd, ghost, SQUARE_TOKEN,
                 LOCATION_ID, SCRAPE_WINDOW_H, CURRENCY, window, located, slept>>

BootNext ==
  \/ Configure
  \/ GetAccountCurrency
  \/ GetAccountCurrencyFails
  \/ Main
  \/ Next

\* The whole process, from its first line.
BootSpec == BootInit /\ [][BootNext]_vars

\* ------------------------------------------------------------------------
\* The windows of a cycle, as functions of the clock and the configuration.

\* collect_metrics binds its windows (lines 88-93 and 151-153): the clock is
\* read once, and both windows are computed from that reading.  The windows
\* go to the remote as ISO strings, which the model leaves out.
Windows ==
  /\ pc = "main"
  /\ \E t \in Times :
       /\ now' = t
       /\ end_time' = t
       /\ start_time' = Minus(t, SCRAPE_WINDOW_H)
       /\ mtd_start' = MtdStart(t)
  /\ mtd_end' = end_time'
  /\ UNCHANGED <<pc, last, cache, locals, gauges24, gaugesMtd, ghost, config, located,
                 slept>>

WindowSpec == WindowInit /\ [][Windows]_vars

TypeOK ==
  /\ pc \in {"config", "get_account_currency", "start", "main", "list_payments",
              "payment", "list_refunds", "list_payments_mtd", "sleep", "exit"}
  /\ last \in {"none", "ok", "error", "crash"}

\* ------------------------------------------------------------------------
\* What the sweeps should come to, from the remote data alone.

\* The records of a result set, page after page.
RECURSIVE Flatten(_)
Flatten(pages) == IF Len(pages) = 0 THEN <<>> ELSE Head(pages) \o Flatten(Tail(pages))

\* The sum of the amounts of a sequence of records.
RECURSIVE SumAmounts(_)
SumAmounts(rs) ==
  IF Len(rs) = 0 THEN 0 ELSE Head(rs).amount_money.amount + SumAmounts(Tail(rs))

TrailingPcs == {"list_payments", "payment", "list_refunds"}

\* ------------------------------------------------------------------------
\* C1: whatever collect_metrics raises, wherever in the cycle, the scheduler
\* catches and logs it and goes to sleep: the process never terminates, and
\* (the loop being fair) every failed cycle is followed by the start of
\* another cycle.
C1_FailedCycleRecovers ==
  /\ [](pc # "exit" /\ last # "crash")
  /\ [][last' = "error" /\ last # "error" => pc' = "sleep"]_vars
  /\ ((pc = "sleep" /\ last = "error") ~> (pc = "list_payments"))

\* The fetch of the second page of refunds has failed, and the process sleeps.
C1_Witness ==
  pc = "sleep" /\ last = "error" /\ sweep = "refunds" /\ Len(requests) = 2

\* C2: the gauges of a window change only in the step that ends the window's
\* last sweep without an error, and then the window was swept whole; every
\* other step, a failing one above all, leaves them as they were.
C2_AllOrNothing ==
  [][ /\ gauges24' # gauges24 =>
           /\ pc = "list_refunds" /\ pc' = "list_payments_mtd"
           /\ total_count = Len(Flatten(remote'["payments"]))
           /\ visited' = Flatten(remote'["refunds"])
      /\ gaugesMtd' # gaugesMtd =>
           /\ pc = "list_payments_mtd" /\ pc' = "sleep" /\ last' = "ok"
           /\ visited' = Flatten(remote'["mtd"])
      /\ pc \in TrailingPcs /\ last' = "error" => gauges24' = gauges24
      /\ pc = "list_payments_mtd" /\ last' = "error" => gaugesMtd' = gaugesMtd ]_vars

\* A cycle has failed on the second page of refunds while the gauges held
\* the values of an earlier cycle.
C2_Witness ==
  /\ pc = "sleep" /\ last = "error" /\ sweep = "refunds" /\ Len(requests) = 2
  /\ g_pay_count = Float(2) /\ g_refund_count = Float(1)

\* C3 as first stated: when a cycle ends without having published the
\* trailing window, it has still attempted the month-to-date window.
C3_Original == pc = "sleep" /\ "24h" \notin published => sweep = "mtd"

\* C3, amended: the month-to-date sweep is only ever begun after the trailing
\* window was aggregated and published in the same cycle; a cycle whose
\* trailing aggregation fails ends there, logged, with no month-to-date
\* request made and no month-to-date gauge set.
C3_TrailingFailureEndsCycle ==
  /\ (pc = "list_payments_mtd" \/ sweep = "mtd") => "24h" \in published
  /\ pc = "sleep" /\ "24h" \notin published =>
       last = "error" /\ sweep \in {"payments", "refunds"} /\ "mtd" \notin published

\* A cycle has ended in the trailing window's refunds sweep.
C3_Witness ==
  pc = "sleep" /\ last = "error" /\ sweep = "refunds" /\ published = {}

\* C4: a sweep requests the pages of its result set one by one, the first
\* with no cursor and each next one with the cursor the page before returned,
\* never one twice; what it has processed is the records of the pages so far,
\* each once and in order; and it leaves its loop exactly when the page
\* without a cursor is done, every page requested and every record processed.
C4_Pagination ==
  sweep # "none" /\ remote[sweep] # <<>> =>
    LET pages == remote[sweep]
        all == Flatten(pages)
    IN /\ Len(requests) <= Len(pages)
       /\ \A k \in 1..Len(requests) :
            requests[k] = IF k = 1 THEN None
                          ELSE Get(Response(pages, sweep, requests[k - 1]), "cursor", None)
       /\ Len(visited) <= Len(all)
       /\ visited = SubSeq(all, 1, Len(visited))
       /\ finished => Len(requests) = Len(pages) /\ visited = all
       /\ Len(requests) = Len(pages) /\ visited = all /\ last # "error" /\ pc # "payment"
            => finished

\* The payments sweep has ended after two pages and two records.
C4_Witness ==
  finished /\ sweep = "payments" /\ Len(requests) = 2 /\ Len(visited) = 2

\* C5: once a window is published in a cycle, its count gauge is the number
\* of records of the window's result set and its total gauge the sum of their
\* amounts, however the records lie on the pages: payments and refunds of the
\* trailing window, payments of the month to date.
C5_CountsAndTotals ==
  /\ "24h" \in published =>
       /\ g_pay_count = Float(Len(Flatten(remote["payments"])))
       /\ g_pay_value = Float(SumAmounts(Flatten(remote["payments"])))
       /\ g_refund_count = Float(Len(Flatten(remote["refunds"])))
       /\ g_refund_value = Float(SumAmounts(Flatten(remote["refunds"])))
  /\ "mtd" \in published =>
       /\ g_pay_count_mtd = Float(Len(Flatten(remote["mtd"])))
       /\ g_pay_value_mtd = Float(SumAmounts(Flatten(remote["mtd"])))

\* A cycle has succeeded on payments [500, 1500], one per page, and refunds
\* [200].
C5_Witness ==
  /\ pc = "sleep" /\ last = "ok" /\ Len(remote["payments"]) = 2
  /\ g_pay_count = Float(2) /\ g_pay_value = Float(2000)
  /\ g_refund_count = Float(1) /\ g_refund_value = Float(200)

\* avg is total / count for a positive count and 0 for count 0.
IsAverage(avg, count, total) ==
  IF count.num > 0
  THEN avg.den > 0 /\ avg.num * count.num = total.num * avg.den
  ELSE avg = Float(0)

\* C6: the average gauges always hold total / count of the count and total
\* gauges beside them, and 0 when the count is 0; and the division never
\* fails: the step that ends a window's last sweep publishes the window.
C6_Average ==
  /\ [](/\ IsAverage(g_avg_value, g_pay_count, g_pay_value)
        /\ IsAverage(g_avg_value_mtd, g_pay_count_mtd, g_pay_value_mtd))
  /\ [][pc = "list_refunds" /\ finished' =>
          pc' = "list_payments_mtd" /\ "24h" \in published']_vars
  /\ [][pc = "list_payments_mtd" /\ finished' =>
          pc' = "sleep" /\ last' = "ok" /\ "mtd" \in published']_vars

\* A cycle has succeeded with no payment in the trailing window, after a
\* cycle that published products, and with two payments in the month to date.
C6_Witness ==
  /\ pc = "sleep" /\ last = "ok"
  /\ g_pay_count = Float(0) /\ g_avg_value = Float(0)
  /\ g_pay_count_mtd = Float(2) /\ g_avg_value_mtd = Float(1500)
  /\ "Coffee" \in DOMAIN product_count_24h

\* The order id of the payment the loop is at ("" outside the loop).
CurrentOrderId ==
  IF pc = "payment" THEN Get(CurrentPayment, "order_id", NoOrderId) ELSE NoOrderId

\* C7: an order id is in the cache exactly when one remote fetch for it has
\* succeeded, and never more than one succeeds; the cached order is the one
\* the remote returned; a call for a cached id makes no remote fetch; and an
\* entry, once stored, stays as it is.
C7_Memoization ==
  /\ [](\A o \in OrderIds :
          /\ fetches[o] <= 1
          /\ o \in DOMAIN cache <=> fetches[o] = 1
          /\ o \in DOMAIN cache => cache[o] = RemoteOrder(o).order)
  /\ [](DOMAIN cache \subseteq OrderIds)
  /\ [][\A o \in DOMAIN cache : o \in DOMAIN cache' /\ cache'[o] = cache[o]]_vars
  /\ [][(CurrentOrderId \in DOMAIN cache) =>
          (/\ fetches' = fetches
           /\ lookup' = [order_id |-> CurrentOrderId, remote |-> FALSE,
                          raised |-> FALSE])
       ]_vars

\* Both orders are cached, and the last call, for o1, was served from the
\* cache.
C7_Witness ==
  /\ DOMAIN cache = OrderIds
  /\ lookup = [order_id |-> "o1", remote |-> FALSE, raised |-> FALSE]

\* C8: a get_order call whose remote fetch fails raises to the scheduler and
\* leaves the cache as it was, the id not in it; and a call for an id that
\* is not in the cache, after a failure as before one, makes the remote
\* fetch.
C8_FailureNotCached ==
  /\ [](lookup.raised =>
          /\ lookup.remote
          /\ lookup.order_id \notin DOMAIN cache
          /\ pc = "sleep" /\ last = "error")
  /\ [][lookup'.raised /\ ~lookup.raised => cache' = cache]_vars
  /\ [][CurrentOrderId # NoOrderId /\ CurrentOrderId \notin DOMAIN cache =>
          lookup'.order_id = CurrentOrderId /\ lookup'.remote]_vars

\* The lookup of o2 has failed in a cycle in which o1 is cached.
C8_Witness ==
  /\ lookup = [order_id |-> "o2", remote |-> TRUE, raised |-> TRUE]
  /\ DOMAIN cache = {"o1"}

\* The line items of the orders of the payments ps that name an order, one
\* copy per payment.
RECURSIVE LineItemsOf(_)
LineItemsOf(ps) ==
  IF Len(ps) = 0 THEN <<>>
  ELSE (IF "order_id" \in DOMAIN Head(ps)
        THEN RemoteOrder(Head(ps).order_id).order.line_items ELSE <<>>)
       \o LineItemsOf(Tail(ps))

\* The quantity of a line item.
Quantity(item) == int(item.quantity)

\* Over the items named n: the sum of the quantities, and of price * quantity.
RECURSIVE SumQuantity(_, _)
SumQuantity(items, n) ==
  IF Len(items) = 0 THEN 0
  ELSE (IF Head(items).name = n THEN Quantity(Head(items)) ELSE 0)
       + SumQuantity(Tail(items), n)

RECURSIVE SumValue(_, _)
SumValue(items, n) ==
  IF Len(items) = 0 THEN 0
  ELSE (IF Head(items).name = n
        THEN Head(items).base_price_money.amount * Quantity(Head(items)) ELSE 0)
       + SumValue(Tail(items), n)

\* C9: when the payments sweep of the trailing window has ended, the product
\* dicts have exactly the names of the line items of the window's orders,
\* each with the sum of its quantities and of unit price * quantity, an order
\* counted once for each payment that names it; and these are the values the
\* per-product gauges are set to.
C9_ProductAggregation ==
  pc \in {"list_refunds", "list_payments_mtd"} =>
    LET items == LineItemsOf(Flatten(remote["payments"]))
        names == {items[i].name : i \in DOMAIN items}
    IN /\ DOMAIN product_counts = names
       /\ DOMAIN product_values = names
       /\ \A n \in names :
            /\ product_counts[n] = SumQuantity(items, n)
            /\ product_values[n] = SumValue(items, n)
            /\ pc = "list_payments_mtd" =>
                 /\ product_count_24h[n] = Float(product_counts[n])
                 /\ product_value_24h[n] = Float(product_values[n])

\* Two payments, of orders {Coffee, 2, 300}, {Tea, 10, 250} and
\* {Coffee, 1, 300}, have come to Coffee = {count 3, value 900}.
C9_Witness ==
  /\ pc = "list_refunds"
  /\ DOMAIN product_counts = {"Coffee", "Tea"}
  /\ product_counts["Coffee"] = 3 /\ product_values["Coffee"] = 900
  /\ product_counts["Tea"] = 10 /\ product_values["Tea"] = 2500

\* C10: a cycle that aggregates a window whose remote data are those the
\* window's gauges were last published from publishes the same values again,
\* whatever cycles, failed ones too, ran in between and whatever the order
\* cache holds; and every cycle begins with zero accumulators and empty
\* product dicts.
C10_Idempotence ==
  /\ [][pc = "list_refunds" /\ pc' = "list_payments_mtd"
           /\ {"payments", "refunds"} \subseteq unchanged
         => gauges24' = gauges24]_vars
  /\ [][pc = "list_payments_mtd" /\ pc' = "sleep" /\ last' = "ok"
           /\ "mtd" \in unchanged
         => gaugesMtd' = gaugesMtd]_vars
  /\ [](pc = "list_payments" /\ sweep = "none" =>
          /\ total_count = 0 /\ total_value = 0
          /\ refund_count = 0 /\ refund_value = 0
          /\ product_counts = EmptyDict /\ product_values = EmptyDict)

\* The trailing window has been published a second time from the same data,
\* its order served from the cache this time.
C10_Witness ==
  /\ pc = "list_payments_mtd" /\ sweep = "refunds"
  /\ unchanged = Queries
  /\ lookup = [order_id |-> "o1", remote |-> FALSE, raised |-> FALSE]
  /\ product_counts # EmptyDict

\* C11: a cycle whose trailing window holds no payment and no refund, on
\* however many (empty) pages, does not fail at the end of its refunds sweep:
\* it publishes the window, with payment count, total and average and refund
\* count and total all 0, and its product dicts have no entry.
C11_EmptyWindow ==
  /\ [][/\ pc = "list_refunds" /\ finished'
        /\ Flatten(remote'["payments"]) = <<>> /\ Flatten(remote'["refunds"]) = <<>>
        => /\ pc' = "list_payments_mtd" /\ last' = "none"
           /\ "24h" \in published'
           /\ product_counts' = EmptyDict /\ product_values' = EmptyDict]_vars
  /\ []("24h" \in published /\ Flatten(remote["payments"]) = <<>>
          /\ Flatten(remote["refunds"]) = <<>>
        => /\ g_pay_count = Float(0) /\ g_pay_value = Float(0)
           /\ g_avg_value = Float(0)
           /\ g_refund_count = Float(0) /\ g_refund_value = Float(0))

\* An empty trailing window, of two empty pages of payments, has been
\* published over the values of an earlier cycle, and the cycle has ended
\* well.
C11_Witness ==
  /\ pc = "sleep" /\ last = "ok"
  /\ remote["payments"] = << <<>>, <<>> >> /\ Flatten(remote["refunds"]) = <<>>
  /\ g_pay_count = Float(0) /\ g_refund_count = Float(0)
  /\ "Tea" \in DOMAIN product_count_24h

\* Instant a is strictly before instant b, field by field from the year down.
RECURSIVE LessFrom(_, _, _)
LessFrom(a, b, fields) ==
  /\ Len(fields) > 0
  /\ \/ a[Head(fields)] < b[Head(fields)]
     \/ a[Head(fields)] = b[Head(fields)] /\ LessFrom(a, b, Tail(fields))

Less(a, b) == LessFrom(a, b, <<"year", "month", "day", "hour", "minute">>)

\* C12: whatever the clock reads and whatever window size is configured, both
\* windows of a cycle begin strictly before they end.
C12_StartBeforeEnd ==
  now # NoTime => Less(start_time, end_time) /\ Less(mtd_start, mtd_end)

\* C13: the month-to-date window of a cycle begins at the first instant of
\* the month the clock reading lies in (the minute before it is in another
\* month) and ends at the reading, so that it spans exactly the time gone by
\* in that month: 30 minutes at 00:30 on the first; and the trailing window
\* ends at the same reading.
C13_MonthToDate ==
  now # NoTime =>
    /\ mtd_start = [year |-> now.year, month |-> now.month, day |-> 1,
                    hour |-> 0, minute |-> 0]
    /\ FromMinutes(ToMinutes(mtd_start) - 1).month # now.month
    /\ mtd_end = now /\ end_time = now
    /\ ToMinutes(mtd_end) - ToMinutes(mtd_start)
         = ((now.day - 1) * 24 + now.hour) * 60 + now.minute
    /\ (now.day = 1 /\ now.hour = 0 /\ now.minute = 30
          => ToMinutes(mtd_end) - ToMinutes(mtd_start) = 30)

\* The clock read 00:30 on the first of January 2024: the window begins that
\* day at 00:00, not in December.
C13_Witness ==
  /\ now = [year |-> 2024, month |-> 1, day |-> 1, hour |-> 0, minute |-> 30]
  /\ mtd_start = [year |-> 2024, month |-> 1, day |-> 1, hour |-> 0, minute |-> 0]
  /\ mtd_end = now

\* Where the process is before the scheduler loop.
StartupPcs == {"config", "get_account_currency", "start"}

\* No remote request of any kind has been made.
NoRemoteCall ==
  /\ ~located
  /\ sweep = "none" /\ requests = <<>>
  /\ \A o \in OrderIds : fetches[o] = 0
  /\ lookup = NoLookup

C15_NoRetry ==
  /\ [](failed # "" => pc = "sleep" /\ last = "error")
  /\ [][failed' # "" /\ failed = "" =>
          /\ fetches' = fetches /\ cache' = cache
          /\ IF failed' = "get_order"
             THEN requests' = requests /\ lookup'.remote /\ lookup'.raised
             ELSE /\ Len(requests') = (IF sweep' = sweep THEN Len(requests) ELSE 0) + 1
                  /\ lookup' = lookup]_vars
  /\ [][failed # "" =>
          /\ pc' = "main" /\ failed' = ""
          /\ requests' = <<>> /\ lookup' = NoLookup
          /\ fetches' = fetches /\ cache' = cache
          /\ gauges24' = gauges24 /\ gaugesMtd' = gaugesMtd]_vars
  /\ [](\A i, j \in DOMAIN requests : i # j => requests[i] # requests[j])
  /\ [][pc = "main" => pc' = "list_payments" /\ cursor' = None /\ requests' = <<>>]_vars
  /\ [][pc = "list_payments" /\ sweep = "none" => requests' = <<None>>]_vars

\* The lookup of an order on the second page of payments has raised, and the
\* process sleeps.
C15_Witness ==
  /\ failed = "get_order" /\ pc = "sleep"
  /\ sweep = "payments" /\ Len(requests) = 2 /\ Len(visited) = 1

\* C16: the step that processes a payment without an order id adds 1 to the
\* payment count and the payment's amount to the total and nothing to the
\* product dicts, calls get_order not at all (no fetch, the cache and the
\* record of the last lookup as they were), and raises nothing: the sweep
\* goes on.
C16_NoOrderId ==
  [][(pc = "payment" /\ "order_id" \notin DOMAIN data["payments"][idx]) =>
       (/\ total_count' = total_count + 1
        /\ total_value' = total_value + data["payments"][idx].amount_money.amount
        /\ product_counts' = product_counts /\ product_values' = product_values
        /\ cache' = cache /\ fetches' = fetches /\ lookup' = lookup
        /\ failed' = "" /\ last' = "none"
        /\ pc' \in {"payment", "list_payments", "list_refunds"})]_vars

\* The payment of 500, which names no order, has been counted after the
\* payment of order o1, and the product dicts hold o1's items alone.
C16_Witness ==
  /\ sweep = "payments" /\ Len(visited) = 2
  /\ "order_id" \notin DOMAIN visited[2]
  /\ total_count = 2 /\ total_value = 2000
  /\ product_counts = ("Coffee" :> 2) @@ ("Tea" :> 10)
  /\ DOMAIN cache = {"o1"}

\* C17: no step of the month-to-date sweep calls get_order or touches what
\* the trailing window published: the order cache, the count of remote order
\* fetches, the record of the last lookup, and every trailing gauge, the
\* per-product ones among them, are after the step what they were before it,
\* whether or not the payments of the page name orders.
C17_MtdNoProducts ==
  [][pc = "list_payments_mtd" =>
       /\ cache' = cache /\ fetches' = fetches /\ lookup' = lookup
       /\ gauges24' = gauges24]_vars

\* The month-to-date sweep has ended well over a payment of order o1, which
\* is not in the cache, after a trailing window without payments.
C17_Witness ==
  /\ pc = "sleep" /\ last = "ok" /\ sweep = "mtd"
  /\ Len(visited) = 1 /\ visited[1].order_id = "o1"
  /\ "o1" \notin DOMAIN cache
  /\ g_pay_count = Float(0) /\ g_pay_count_mtd = Float(1)

\* Where the process is while a cycle runs.
CyclePcs == {"list_payments", "payment", "list_refunds", "list_payments_mtd"}

\* C18: the process is the loop's one thread, so that at most one cycle runs.
\* The sleep begins only in the step that ends a running cycle, well or by an
\* exception, and then the frame of collect_metrics is gone; a cycle begins
\* only from the top of the loop, which is reached only from the sleep and
\* with nothing of a cycle left over; and every page request, order lookup
\* and gauge update is a step of the one cycle that runs, before its end.
C18_Sequential ==
  /\ [](pc = "sleep" =>
          /\ last \in {"ok", "error"}
          /\ cursor = None /\ data = NoData /\ idx = 0
          /\ total_count = 0 /\ mtd_count = 0)
  /\ [][pc' = "sleep" /\ pc # "sleep" =>
          pc \in CyclePcs /\ last = "none"]_vars
  /\ [](pc = "main" =>
          /\ last = "none" /\ failed = ""
          /\ sweep = "none" /\ requests = <<>> /\ visited = <<>>
          /\ lookup = NoLookup /\ published = {})
  /\ [][pc' = "main" => pc = "sleep"]_vars
  /\ [][pc = "main" => pc' = "list_payments"]_vars
  /\ [][pc' \in CyclePcs => pc \in CyclePcs \cup {"main"}]_vars
  /\ [][\/ requests' \notin {requests, <<>>}
        \/ fetches' # fetches
        \/ lookup' \notin {lookup, NoLookup}
        \/ gauges24' # gauges24
        \/ gaugesMtd' # gaugesMtd
        => pc \in CyclePcs /\ last = "none" /\ failed = ""]_vars

\* A second cycle is under way, at its refunds, after a first one that
\* published: the first cycle ended, and the process slept, before it.
C18_Witness ==
  /\ pc = "list_refunds" /\ sweep = "payments" /\ published = {}
  /\ slept = interval
  /\ g_pay_count = Float(2) /\ g_pay_count_mtd = Float(1)

\* C19: when a cycle has ended well, the per-product gauges carry exactly the
\* product names of the cycle's trailing window, each with the window's count
\* and value; no name of an earlier window is left among them.
C19_ProductsOfWindow ==
  pc = "sleep" /\ last = "ok" =>
    LET items == LineItemsOf(Flatten(remote["payments"]))
        names == {items[i].name : i \in DOMAIN items}
    IN /\ DOMAIN product_count_24h = names
       /\ DOMAIN product_value_24h = names
       /\ \A n \in names :
            /\ product_count_24h[n] = Float(SumQuantity(items, n))
            /\ product_value_24h[n] = Float(SumValue(items, n))

\* C20: once the loop is entered the period is at least 60 seconds, is
\* SCRAPE_WINDOW_H * 300 seconds when that is at least 60 and 60 seconds
\* otherwise; it is set in the one step before the loop and never again;
\* every cycle, ending well or by an exception, ends in the sleep; and every
\* sleep lasts the period.
C20_Period ==
  /\ [](pc \in CyclePcs \cup {"main", "sleep"} =>
          /\ interval >= 60
          /\ SCRAPE_WINDOW_H * 300 >= 60 => interval = SCRAPE_WINDOW_H * 300
          /\ SCRAPE_WINDOW_H * 300 < 60 => interval = 60)
  /\ [][interval' # interval => pc = "start" /\ pc' = "main"]_vars
  /\ [][(pc \in CyclePcs /\ pc' \notin CyclePcs) =>
          (pc' = "sleep" /\ last' \in {"ok", "error"})]_vars
  /\ [][pc = "sleep" => slept' = interval /\ pc' = "main"]_vars
  /\ [][slept' # slept => pc = "sleep"]_vars

\* With a window of one hour, a cycle has failed after an earlier one
\* published, and the sleep between them lasted 300 seconds.
C20_Witness ==
  /\ SCRAPE_WINDOW_H = 1 /\ interval = 300 /\ slept = 300
  /\ pc = "sleep" /\ last = "error"
  /\ g_pay_count = Float(1)

====
